---- MODULE Spec2Model ----
(***************************************************************************)
(* Model of the msp432car drive controller: the main loop that dispatches  *)
(* the FSM state handlers (state_machine.c), the interrupt handlers that   *)
(* deliver remote commands, servo/ultrasonic completions and Timer32       *)
(* expiries, and the powertrain / sensing modules they call.               *)
(*                                                                         *)
(* The main thread is modelled statement by statement (pc); an interrupt   *)
(* handler runs to completion as one action (all interrupts have the same  *)
(* NVIC priority, so handlers do not preempt each other).                  *)
(***************************************************************************)
EXTENDS Integers, Sequences, FiniteSets, TLC

VARIABLES
    FSM_currentState,   \* state_machine.h: FSM_State FSM_currentState
    pc,                 \* position of the main thread
    asleep,             \* main thread is inside PCM_gotoLPM0InterruptSafe()
    sleepOnExit,        \* Cortex-M SLEEPONEXIT bit
    controlled,         \* state_machine.c globals
    obstructed,
    sensing,
    turned,
    remoteCallback,     \* remote_module.c
    singleCallback,     \* sensing_module.c
    doubleCallback,
    powertrainCallback, \* powertrain_module.c
    motorCallbacks,     \* motor_hal.h: speedCallback / dirCallback of each Motor
    powertrain,         \* powertrain_module.c: left_motor / right_motor state
    servo,              \* sensing_module.c: Servo servo (state.position)
    currentSensingMode,
    previousSample,
    nextDirection,
    sampleCount,
    timer32_0,          \* TIMER32_0 counting (servo positioning delay)
    timer32_1,          \* TIMER32_1: counting or not, and who programmed it
    usTriggered,        \* an ultrasonic measurement has been triggered
    T32_INT2_linked,    \* which of the two T32_INT2_IRQHandler definitions is linked
    entry,              \* observation: where this run of the controller started
    queue,              \* queue.h: a StringQueue (data, front, rear, itemCount)
    pending,            \* observation: strings stored in the queue and not yet
                        \* taken out, oldest first
    returned,           \* observation: what the last queue_dequeue /
                        \* queue_front returned
    toggled,            \* observation: a mode toggle was accepted since the
                        \* last assignment to FSM_currentState
    frontResult,        \* observation: result of the latest single measurement
    event,              \* observation: the step that was taken last
    motion,             \* observation: Powertrain operations called by the last step
    calls               \* observation: callbacks invoked by the last step

vars == <<FSM_currentState, pc, asleep, sleepOnExit, controlled, obstructed,
          sensing, turned, remoteCallback, singleCallback, doubleCallback,
          powertrainCallback, motorCallbacks, powertrain, servo,
          currentSensingMode,
          previousSample, nextDirection, sampleCount, timer32_0, timer32_1,
          usTriggered, T32_INT2_linked, entry, queue, pending, returned,
          toggled, frontResult, event, motion, calls>>

fsmFlags  == <<controlled, obstructed, sensing, turned>>
queueVars == <<queue, pending, returned>>
cbVars    == <<remoteCallback, singleCallback, doubleCallback, powertrainCallback,
               motorCallbacks, queueVars>>
scanVars  == <<currentSensingMode, previousSample, nextDirection, sampleCount>>
servoVars == <<servo, timer32_0, usTriggered>>

----------------------------------------------------------------------------
(* Bounds and program constants *)

MaxDistance == 21

SENSING_FREE_THRESHOLD == 20
SERVO_MIN_POSITION == -90
SERVO_MAX_POSITION == 90
SERVO_POS_LEFT == SERVO_MAX_POSITION
SERVO_POS_FRONT == 0
SERVO_POS_RIGHT == SERVO_MIN_POSITION
POWERTRAIN_FWD_SPEED == 40
POWERTRAIN_REV_SPEED == 20
POWERTRAIN_TURN_SPEED == 50
WHEEL_MAX_ANGULAR_SPEED == 45

\* distances the ultrasonic sensor may report: from the free threshold itself
\* (not clear) upwards (clear)
Distances == SENSING_FREE_THRESHOLD..MaxDistance

FSM_State == {"STATE_INIT", "STATE_RUNNING", "STATE_SENSING", "STATE_TURNING",
              "STATE_REMOTE"}

MotorDirection == {"MOTOR_DIR_FORWARD", "MOTOR_DIR_REVERSE", "MOTOR_DIR_STOP"}

\* IR codes: the eight mapped ones, an unmapped key and a second unmapped key
IRCommand == {"IR_COMMAND_UP", "IR_COMMAND_DOWN", "IR_COMMAND_LEFT",
              "IR_COMMAND_RIGHT", "IR_COMMAND_OK", "IR_COMMAND_2",
              "IR_COMMAND_8", "IR_COMMAND_ASTERISK", "IR_COMMAND_0",
              "IR_COMMAND_HASHTAG"}

\* first three characters of a received text message
BTTokens == {"FWD", "REV", "LFT", "RGT", "STP", "AUT", "MAN", "XYZ"}

NoEvent == [type |-> "none", arg |-> "", dist |-> 0, state |-> "STATE_INIT"]

----------------------------------------------------------------------------
(* motor_hal.c *)

MOTOR_HAL_motorInit == [speed |-> 0, direction |-> "MOTOR_DIR_FORWARD"]

\* the change callbacks of a Motor, which nothing in the program registers
NoMotorCallbacks == [speedCallback |-> "NULL", dirCallback |-> "NULL"]

MOTOR_HAL_setSpeed(motor, speed) == [motor EXCEPT !.speed = speed]

MOTOR_HAL_setDirection(motor, direction) ==
    [direction |-> direction,
     speed |-> IF direction = "MOTOR_DIR_STOP" THEN 0 ELSE motor.speed]

MOTOR_HAL_stop(motor) == [direction |-> "MOTOR_DIR_STOP", speed |-> 0]

----------------------------------------------------------------------------
(* powertrain_module.c: operations on the Powertrain struct *)

Powertrain_Module_init ==
    [left_motor |-> MOTOR_HAL_motorInit, right_motor |-> MOTOR_HAL_motorInit]

Powertrain_Module_stop(p) ==
    [left_motor  |-> IF p.left_motor.speed > 0
                        THEN MOTOR_HAL_stop(p.left_motor) ELSE p.left_motor,
     right_motor |-> IF p.right_motor.speed > 0
                        THEN MOTOR_HAL_stop(p.right_motor) ELSE p.right_motor]

\* the four statements of a direction-then-speed command, in program order
SetBoth(p, dirL, dirR, speed) ==
    LET p1 == [p  EXCEPT !.left_motor  = MOTOR_HAL_setDirection(@, dirL)]
        p2 == [p1 EXCEPT !.right_motor = MOTOR_HAL_setDirection(@, dirR)]
        p3 == [p2 EXCEPT !.left_motor  = MOTOR_HAL_setSpeed(@, speed)]
    IN  [p3 EXCEPT !.right_motor = MOTOR_HAL_setSpeed(@, speed)]

Powertrain_Module_moveForward(p) ==
    SetBoth(p, "MOTOR_DIR_FORWARD", "MOTOR_DIR_FORWARD", POWERTRAIN_FWD_SPEED)

Powertrain_Module_moveBackward(p) ==
    SetBoth(p, "MOTOR_DIR_REVERSE", "MOTOR_DIR_REVERSE", POWERTRAIN_REV_SPEED)

\* motor part of turnLeft / turnRight (the timer part is wait_milliseconds)
\* a left turn that drives both motors forward (what C31 rules out)
TurnLeftMotors_bothForward(p) ==
    SetBoth(p, "MOTOR_DIR_FORWARD", "MOTOR_DIR_FORWARD", POWERTRAIN_TURN_SPEED)

TurnLeftMotors(p) ==
    SetBoth(p, "MOTOR_DIR_REVERSE", "MOTOR_DIR_FORWARD", POWERTRAIN_TURN_SPEED)

TurnRightMotors(p) ==
    SetBoth(p, "MOTOR_DIR_FORWARD", "MOTOR_DIR_REVERSE", POWERTRAIN_TURN_SPEED)

\* a uint32_t as its two 16-bit halves
U32(n) == [hi |-> n \div 65536, lo |-> n % 65536]

U32Max == [hi |-> 65535, lo |-> 65535]

\* 2 * t on uint32_t
U32Double(t) ==
    [hi |-> (2 * t.hi + (2 * t.lo) \div 65536) % 65536,
     lo |-> (2 * t.lo) % 65536]

\* what the conversion of an infinite or NaN float to uint32_t may yield
\* (undefined in C): 0, the "indefinite" value 0x80000000, or the
\* saturated value 0xFFFFFFFF
UndefinedConversion == {U32(0), [hi |-> 32768, lo |-> 0], U32Max}

\* calculate_time_from_angle: `speedPercentage / 100` is a division of
\* integers, its quotient is multiplied into the float speed, and
\* `angle * 1000 / speed` is a float division converted to uint32_t.
\* The result is the set of [speed, time] the build can produce.
calculate_time_from_angle(speedPercentage, angle) ==
    LET speed == WHEEL_MAX_ANGULAR_SPEED * (speedPercentage \div 100) IN
    IF speed = 0
    THEN {[speed |-> 0, time |-> t] : t \in UndefinedConversion}
    ELSE {[speed |-> speed, time |-> U32((angle * 1000) \div speed)]}

\* wait_milliseconds: program TIMER32_1 and start it in one-shot mode
wait_milliseconds == [running |-> TRUE, by |-> "wait_milliseconds"]

\* a speed step clamped below the upper bound (what C25, amended, rules out)
StepSpeed_lowCeiling(motor, delta) ==
    IF motor.direction = "MOTOR_DIR_STOP" \/ motor.speed = 0 THEN motor
    ELSE LET s == motor.speed + delta
         IN  [motor EXCEPT !.speed = IF s > 90 THEN 90
                                     ELSE IF s < 20 THEN 20 ELSE s]

\* a speed step that is not clamped (what C24 rules out)
StepSpeed_unclamped(motor, delta) ==
    IF motor.direction = "MOTOR_DIR_STOP" \/ motor.speed = 0 THEN motor
    ELSE [motor EXCEPT !.speed = motor.speed + delta]

\* speed of a motor after +/-10%, clamped to [20,100] while moving
StepSpeed(motor, delta) ==
    IF motor.direction = "MOTOR_DIR_STOP" \/ motor.speed = 0 THEN motor
    ELSE LET s == motor.speed + delta
         IN  [motor EXCEPT !.speed = IF s > 100 THEN 100
                                     ELSE IF s < 20 THEN 20 ELSE s]

Powertrain_Module_increaseSpeed(p) ==
    [left_motor  |-> StepSpeed(p.left_motor, 10),
     right_motor |-> StepSpeed(p.right_motor, 10)]

Powertrain_Module_decreaseSpeed(p) ==
    [left_motor  |-> StepSpeed(p.left_motor, -10),
     right_motor |-> StepSpeed(p.right_motor, -10)]

Cmd(op, angle) == [op |-> op, angle |-> angle]

\* Powertrain_Module_turnLeft / turnRight as a step fragment
Powertrain_Module_turnLeft(angle) ==
    /\ powertrain' = TurnLeftMotors(powertrain)
    /\ timer32_1' = wait_milliseconds
    /\ motion' = <<Cmd("turnLeft", angle)>>

Powertrain_Module_turnRight(angle) ==
    /\ powertrain' = TurnRightMotors(powertrain)
    /\ timer32_1' = wait_milliseconds
    /\ motion' = <<Cmd("turnRight", angle)>>

----------------------------------------------------------------------------
(* servo_hal.c / ultrasonic_hal.c *)

\* a position that is taken as requested (what C26 rules out)
Clamp_unclamped(position) == position

Clamp(position) ==
    IF position < SERVO_MIN_POSITION THEN SERVO_MIN_POSITION
    ELSE IF position > SERVO_MAX_POSITION THEN SERVO_MAX_POSITION
    ELSE position

\* the position-reached callback registered by Sensing_Module_init
servoCallback == "US_HAL_triggerMeasurement"

\* SERVO_HAL_setPosition; usBefore is the value usTriggered keeps when the
\* position-reached callback is not invoked synchronously
SERVO_HAL_setPosition(position, usBefore) ==
    LET p == Clamp(position) IN
    IF servo.position = p /\ servoCallback # "NULL"
    THEN /\ usTriggered' = TRUE
         /\ UNCHANGED <<servo, timer32_0>>
    ELSE /\ timer32_0' = TRUE
         /\ servo' = [position |-> p]
         /\ usTriggered' = usBefore

----------------------------------------------------------------------------
(* sensing_module.c *)

Sensing_Module_checkSingleClearance(deg) ==
    /\ currentSensingMode' = "SENSING_SINGLE_SAMPLE_MODE"
    /\ SERVO_HAL_setPosition(deg, usTriggered)
    /\ UNCHANGED <<previousSample, nextDirection, sampleCount>>

Sensing_Module_checkDoubleClearance(deg1, deg2) ==
    /\ currentSensingMode' = "SENSING_DOUBLE_SAMPLE_MODE"
    /\ nextDirection' = deg2
    /\ SERVO_HAL_setPosition(deg1, usTriggered)
    /\ UNCHANGED <<previousSample, sampleCount>>

Sensing_Module_checkLateralClearance ==
    Sensing_Module_checkDoubleClearance(SERVO_POS_LEFT, SERVO_POS_RIGHT)

Sensing_Module_checkFrontClearance ==
    Sensing_Module_checkSingleClearance(SERVO_POS_FRONT)

\* a classification that counts the threshold itself as clear (what C12
\* rules out)
IsFree_inclusive(distance) == distance >= SENSING_FREE_THRESHOLD

\* a classification that reports the opposite (what C14 rules out)
IsFree_inverted(distance) == distance <= SENSING_FREE_THRESHOLD

\* distance > SENSING_FREE_THRESHOLD
IsFree(distance) == distance > SENSING_FREE_THRESHOLD

\* a sample counter that is never advanced (what C13 rules out)
NextSampleCount_stuck(count) == count

\* sampleCount++ on a uint8_t
NextSampleCount(count) == (count + 1) % 256

----------------------------------------------------------------------------
(* state_machine.c: callbacks *)

Call(cb, a, b) == [cb |-> cb, a |-> a, b |-> b]

\* obstacleCallback(): takes no argument, the isFree value passed by the
\* sensing module is not looked at
obstacleCallback(state, flag) ==
    IF state = "STATE_RUNNING" THEN TRUE ELSE flag

\* a turnedCallback without its state test (what C3 rules out)
turnedCallback_unguarded(state, flag) == TRUE

\* turnedCallback: sets the flag only while the controller is in TURNING
turnedCallback(state, flag) ==
    IF state = "STATE_TURNING" THEN TRUE ELSE flag

\* a choice that prefers the right side (what C9 rules out)
TurnChoice_rightFirst(free_left, free_right) ==
    IF free_right THEN Cmd("turnRight", 90)
    ELSE IF free_left THEN Cmd("turnLeft", 90)
    ELSE Cmd("turnRight", 180)

\* the turn chosen by sensingCallback
TurnChoice(free_left, free_right) ==
    IF free_left THEN Cmd("turnLeft", 90)
    ELSE IF free_right THEN Cmd("turnRight", 90)
    ELSE Cmd("turnRight", 180)

\* a callback that never issues its turn (what C8 rules out)
TurnGuard_never(state) == FALSE

\* the state test sensingCallback makes before it issues the turn: none
TurnGuard(state) == TRUE

sensingCallback(free_left, free_right) ==
    /\ sensing' = IF FSM_currentState = "STATE_SENSING" THEN FALSE ELSE sensing
    /\ IF TurnGuard(FSM_currentState)
       THEN LET c == TurnChoice(free_left, free_right) IN
            IF c.op = "turnLeft" THEN Powertrain_Module_turnLeft(c.angle)
                                 ELSE Powertrain_Module_turnRight(c.angle)
       ELSE /\ motion' = <<>>
            /\ UNCHANGED <<powertrain, timer32_1>>

\* switchModeCallback: "controlled != controlled;" is a comparison whose
\* result is discarded; the flag keeps its value
ToggleControlled(c) == c

switchModeCallback ==
    /\ controlled' = ToggleControlled(controlled)
    /\ sleepOnExit' = FALSE

\* an interrupt handler returns: the main thread stays asleep only if
\* sleep-on-ISR-exit is enabled
IsrExit == asleep' = (asleep /\ sleepOnExit')

Ev(type, arg, dist) ==
    [type |-> type, arg |-> arg, dist |-> dist, state |-> FSM_currentState]

----------------------------------------------------------------------------
(* remote_module.c *)

\* the Powertrain operation a mapped command stands for
RemoteMotion(op) ==
    CASE op = "forward"  -> /\ powertrain' = Powertrain_Module_moveForward(powertrain)
                            /\ motion' = <<Cmd("moveForward", 0)>>
                            /\ UNCHANGED timer32_1
      [] op = "backward" -> /\ powertrain' = Powertrain_Module_moveBackward(powertrain)
                            /\ motion' = <<Cmd("moveBackward", 0)>>
                            /\ UNCHANGED timer32_1
      [] op = "left"     -> Powertrain_Module_turnLeft(45)
      [] op = "right"    -> Powertrain_Module_turnRight(45)
      [] op = "stop"     -> /\ powertrain' = Powertrain_Module_stop(powertrain)
                            /\ motion' = <<Cmd("stop", 0)>>
                            /\ UNCHANGED timer32_1
      [] op = "faster"   -> /\ powertrain' = Powertrain_Module_increaseSpeed(powertrain)
                            /\ motion' = <<Cmd("increaseSpeed", 0)>>
                            /\ UNCHANGED timer32_1
      [] op = "slower"   -> /\ powertrain' = Powertrain_Module_decreaseSpeed(powertrain)
                            /\ motion' = <<Cmd("decreaseSpeed", 0)>>
                            /\ UNCHANGED timer32_1

\* the mode-change request: the registered callback, if any
RemoteModeChange ==
    /\ IF remoteCallback # "NULL"
       THEN /\ switchModeCallback
            /\ calls' = <<Call("switchModeCallback", FALSE, FALSE)>>
            /\ toggled' = TRUE
       ELSE /\ calls' = <<>>
            /\ UNCHANGED <<controlled, sleepOnExit, toggled>>
    /\ motion' = <<>>
    /\ UNCHANGED <<powertrain, timer32_1>>

RemoteNothing ==
    /\ motion' = <<>>
    /\ calls' = <<>>
    /\ UNCHANGED <<powertrain, timer32_1, controlled, sleepOnExit, toggled>>

\* a code table with no unmapped key (what C19 rules out)
IRMap_allForward(command) == "forward"

IRMap(command) ==
    CASE command = "IR_COMMAND_UP"    -> "forward"
      [] command = "IR_COMMAND_DOWN"  -> "backward"
      [] command = "IR_COMMAND_LEFT"  -> "left"
      [] command = "IR_COMMAND_RIGHT" -> "right"
      [] command = "IR_COMMAND_OK"    -> "stop"
      [] command = "IR_COMMAND_2"     -> "faster"
      [] command = "IR_COMMAND_8"     -> "slower"
      [] command = "IR_COMMAND_ASTERISK" -> "mode"
      [] OTHER -> "none"

\* an IR handler without its early return (what C17 rules out)
IRDropped_never(state, command) == FALSE

\* the early return of Remote_Module_onIRMessageReceived
IRDropped(state, command) ==
    state # "STATE_REMOTE" /\ command # "IR_COMMAND_ASTERISK"

\* what the handler does to the program; the observation of the message is
\* added by Remote_Module_onIRMessageReceived below
IRHandled(command, isValid) ==
    /\ IF IRDropped(FSM_currentState, command)
       THEN RemoteNothing
       ELSE IF ~isValid \/ IRMap(command) = "none" THEN RemoteNothing
       ELSE IF IRMap(command) = "mode" THEN RemoteModeChange
       ELSE /\ RemoteMotion(IRMap(command))
            /\ calls' = <<>>
            /\ UNCHANGED <<controlled, sleepOnExit, toggled>>
    /\ UNCHANGED <<FSM_currentState, pc, obstructed, sensing, turned, cbVars,
                   scanVars, servoVars, T32_INT2_linked, entry, frontResult>>
    /\ IsrExit

Remote_Module_onIRMessageReceived(command, isValid) ==
    /\ event' = Ev(IF isValid THEN "ir" ELSE "ir_invalid", command, 0)
    /\ IRHandled(command, isValid)

\* a token table in which "LFT" turns right (what C32 rules out)
BTMap_leftIsRight(token) ==
    CASE token = "FWD" -> "forward"
      [] token = "REV" -> "backward"
      [] token = "LFT" -> "right"
      [] token = "RGT" -> "right"
      [] token = "STP" -> "stop"
      [] token = "AUT" -> "mode"
      [] token = "MAN" -> "mode"
      [] OTHER -> "none"

BTMap(token) ==
    CASE token = "FWD" -> "forward"
      [] token = "REV" -> "backward"
      [] token = "LFT" -> "left"
      [] token = "RGT" -> "right"
      [] token = "STP" -> "stop"
      [] token = "AUT" -> "mode"
      [] token = "MAN" -> "mode"
      [] OTHER -> "none"

\* an early return that also drops "MAN" (what C18 rules out)
BTDropped_all(state, token) == state # "STATE_REMOTE"

\* the early return of Remote_Module_onBTMessageReceived
BTDropped(state, token) == state # "STATE_REMOTE" /\ token # "MAN"

BTHandled(token) ==
    /\ IF BTDropped(FSM_currentState, token)
       THEN RemoteNothing
       ELSE IF BTMap(token) = "none" THEN RemoteNothing
       ELSE IF BTMap(token) = "mode" THEN RemoteModeChange
       ELSE /\ RemoteMotion(BTMap(token))
            /\ calls' = <<>>
            /\ UNCHANGED <<controlled, sleepOnExit, toggled>>
    /\ UNCHANGED <<FSM_currentState, pc, obstructed, sensing, turned, cbVars,
                   scanVars, servoVars, T32_INT2_linked, entry, frontResult>>
    /\ IsrExit

Remote_Module_onBTMessageReceived(token) ==
    /\ event' = Ev("bt", token, 0)
    /\ BTHandled(token)

----------------------------------------------------------------------------
(* Interrupt handlers of the sensing chain *)

\* servo_hal.c T32_INT1_IRQHandler: TIMER32_0 reached zero, the servo is in
\* position; the registered callback triggers an ultrasonic measurement
T32_INT1_IRQHandler ==
    /\ timer32_0
    /\ timer32_0' = FALSE
    /\ usTriggered' = ((servoCallback # "NULL") \/ usTriggered)
    /\ event' = Ev("servo_reached", "", 0)
    /\ motion' = <<>>
    /\ calls' = <<>>
    /\ UNCHANGED <<FSM_currentState, pc, sleepOnExit, fsmFlags, cbVars,
                   powertrain, servo, scanVars, timer32_1, T32_INT2_linked,
                   entry, toggled, frontResult>>
    /\ IsrExit

\* sensing_module.c Sensing_Module_onUSMeasurementReady(distance), reached
\* through the measurement callback of the ultrasonic layer
Sensing_Module_onUSMeasurementReady(distance) ==
    IF currentSensingMode = "SENSING_SINGLE_SAMPLE_MODE"
    THEN /\ IF singleCallback # "NULL"
            THEN /\ obstructed' = obstacleCallback(FSM_currentState, obstructed)
                 /\ calls' = <<Call("obstacleCallback", IsFree(distance), FALSE)>>
            ELSE /\ calls' = <<>>
                 /\ UNCHANGED obstructed
         /\ usTriggered' = FALSE
         /\ motion' = <<>>
         /\ UNCHANGED <<scanVars, servo, timer32_0, sensing, powertrain, timer32_1>>
    ELSE IF NextSampleCount(sampleCount) < 2
    THEN /\ sampleCount' = NextSampleCount(sampleCount)
         /\ previousSample' = distance
         /\ SERVO_HAL_setPosition(nextDirection, FALSE)
         /\ motion' = <<>>
         /\ calls' = <<>>
         /\ UNCHANGED <<currentSensingMode, nextDirection, obstructed, sensing,
                        powertrain, timer32_1>>
    ELSE /\ sampleCount' = 0
         /\ usTriggered' = FALSE
         /\ IF doubleCallback # "NULL"
            THEN /\ sensingCallback(IsFree(previousSample), IsFree(distance))
                 /\ calls' = <<Call("sensingCallback", IsFree(previousSample),
                                    IsFree(distance))>>
            ELSE /\ calls' = <<>>
                 /\ motion' = <<>>
                 /\ UNCHANGED <<sensing, powertrain, timer32_1>>
         /\ UNCHANGED <<currentSensingMode, previousSample, nextDirection,
                        servo, timer32_0, obstructed>>

\* the ultrasonic layer reports the distance of the triggered measurement
US_MeasurementReady(distance) ==
    /\ usTriggered
    /\ event' = Ev("measurement", currentSensingMode, distance)
    /\ Sensing_Module_onUSMeasurementReady(distance)
    /\ frontResult' = IF currentSensingMode = "SENSING_SINGLE_SAMPLE_MODE"
                      THEN (IF IsFree(distance) THEN "free" ELSE "blocked")
                      ELSE frontResult
    /\ UNCHANGED <<FSM_currentState, pc, sleepOnExit, controlled, turned,
                   cbVars, T32_INT2_linked, entry, toggled>>
    /\ IsrExit

----------------------------------------------------------------------------
(* TIMER32_1 expiry: T32_INT2_IRQHandler is defined twice, in               *)
(* state_machine.c and in powertrain_module.c; T32_INT2_linked is the one   *)
(* the build ended up with.                                                  *)

TimerOff == [running |-> FALSE, by |-> "none"]

\* state_machine.c T32_INT2_IRQHandler: start a front clearance check
FSM_T32_INT2_IRQHandler ==
    /\ Sensing_Module_checkFrontClearance
    /\ UNCHANGED powertrain

\* motors after the handler of powertrain_module.c
StopOnExpiry(p) ==
    [left_motor  |-> MOTOR_HAL_setDirection(p.left_motor, "MOTOR_DIR_STOP"),
     right_motor |-> MOTOR_HAL_setDirection(p.right_motor, "MOTOR_DIR_STOP")]

\* powertrain_module.c T32_INT2_IRQHandler: set both motors to STOP
Powertrain_T32_INT2_IRQHandler ==
    /\ powertrain' = StopOnExpiry(powertrain)
    /\ UNCHANGED <<scanVars, servoVars>>

T32_INT2_IRQHandler ==
    /\ timer32_1.running
    /\ timer32_1' = TimerOff
    /\ event' = Ev("t32_int2", timer32_1.by, 0)
    /\ IF T32_INT2_linked = "state_machine"
       THEN /\ FSM_T32_INT2_IRQHandler
            /\ calls' = <<>>
       ELSE /\ Powertrain_T32_INT2_IRQHandler
            /\ calls' = <<>>
    /\ motion' = <<>>
    /\ UNCHANGED <<FSM_currentState, pc, sleepOnExit, fsmFlags, cbVars,
                   T32_INT2_linked, entry, toggled, frontResult>>
    /\ IsrExit

----------------------------------------------------------------------------
(* main.c / state_machine.c: the main loop and the state handlers.         *)
(* pc = "main" is the top of the loop; the dispatch through                *)
(* FSM_stateMachine[FSM_currentState] and the first statement of the       *)
(* handler are one step.                                                   *)

MainEv == Ev("main", pc, 0)

\* what a main-thread step leaves alone unless it says otherwise
ExitPcs == {"running_exit", "sensing_exit", "turning_exit", "remote_exit"}

MainQuiet == /\ calls' = <<>>
             /\ event' = MainEv
             /\ toggled' = IF pc \in ExitPcs THEN FALSE ELSE toggled
             /\ UNCHANGED <<controlled, cbVars, T32_INT2_linked, entry,
                            frontResult>>

\* FSM_init runs with the master interrupt disabled: one step
FSM_init ==
    /\ pc = "main" /\ FSM_currentState = "STATE_INIT"
    /\ remoteCallback' = "switchModeCallback"
    /\ singleCallback' = "obstacleCallback"
    /\ doubleCallback' = "sensingCallback"
    /\ powertrainCallback' = "turnedCallback"
    /\ sleepOnExit' = FALSE
    /\ timer32_1' = [running |-> TRUE, by |-> "FSM_init"]
    /\ FSM_currentState' = "STATE_REMOTE"
    /\ toggled' = FALSE
    /\ event' = MainEv
    /\ motion' = <<>>
    /\ calls' = <<>>
    /\ UNCHANGED <<pc, asleep, fsmFlags, powertrain, scanVars, servoVars,
                   T32_INT2_linked, entry, frontResult, motorCallbacks,
                   queueVars>>

\* next state chosen at the end of FSM_running / FSM_sensing / FSM_turning /
\* FSM_remote
\* an exit from RUNNING that always hands over to REMOTE (what C20 rules out)
RunningNext_toRemote(c) == "STATE_REMOTE"
RunningNext(c) == IF c THEN "STATE_REMOTE" ELSE "STATE_SENSING"
\* an exit from SENSING that skips the turn (what C5 rules out)
SensingNext_skipTurn(c) == IF c THEN "STATE_REMOTE" ELSE "STATE_RUNNING"
\* an exit from SENSING to a value outside FSM_State (what C23 rules out)
SensingNext_unknown(c) == IF c THEN "STATE_REMOTE" ELSE "NUM_STATES"
SensingNext(c) == IF c THEN "STATE_REMOTE" ELSE "STATE_TURNING"
TurningNext(c) == IF c THEN "STATE_REMOTE" ELSE "STATE_RUNNING"
RemoteNext(c)  == IF c THEN "STATE_REMOTE" ELSE "STATE_RUNNING"

RunningPcs == {"running_dirL", "running_dirR", "running_spdL", "running_spdR",
               "running_loop", "running_exit"}

FSM_running ==
    /\ \/ pc = "main" /\ FSM_currentState = "STATE_RUNNING"
       \/ pc \in RunningPcs
    /\ ~asleep
    /\ MainQuiet
    /\ CASE pc = "main" ->
              /\ obstructed' = FALSE
              /\ pc' = "running_dirL"
              /\ motion' = <<>>
              /\ UNCHANGED <<FSM_currentState, asleep, powertrain>>
         [] pc = "running_dirL" ->
              /\ powertrain' = [powertrain EXCEPT !.left_motor =
                                  MOTOR_HAL_setDirection(@, "MOTOR_DIR_FORWARD")]
              /\ pc' = "running_dirR"
              /\ motion' = <<Cmd("moveForward", 0)>>
              /\ UNCHANGED <<FSM_currentState, asleep, obstructed>>
         [] pc = "running_dirR" ->
              /\ powertrain' = [powertrain EXCEPT !.right_motor =
                                  MOTOR_HAL_setDirection(@, "MOTOR_DIR_FORWARD")]
              /\ pc' = "running_spdL"
              /\ motion' = <<>>
              /\ UNCHANGED <<FSM_currentState, asleep, obstructed>>
         [] pc = "running_spdL" ->
              /\ powertrain' = [powertrain EXCEPT !.left_motor =
                                  MOTOR_HAL_setSpeed(@, POWERTRAIN_FWD_SPEED)]
              /\ pc' = "running_spdR"
              /\ motion' = <<>>
              /\ UNCHANGED <<FSM_currentState, asleep, obstructed>>
         [] pc = "running_spdR" ->
              /\ powertrain' = [powertrain EXCEPT !.right_motor =
                                  MOTOR_HAL_setSpeed(@, POWERTRAIN_FWD_SPEED)]
              /\ pc' = "running_loop"
              /\ motion' = <<>>
              /\ UNCHANGED <<FSM_currentState, asleep, obstructed>>
         [] pc = "running_loop" ->
              /\ IF ~obstructed /\ ~controlled
                 THEN asleep' = TRUE /\ pc' = pc
                 ELSE asleep' = FALSE /\ pc' = "running_exit"
              /\ motion' = <<>>
              /\ UNCHANGED <<FSM_currentState, powertrain, obstructed>>
         [] pc = "running_exit" ->
              /\ FSM_currentState' = RunningNext(controlled)
              /\ pc' = "main"
              /\ motion' = <<>>
              /\ UNCHANGED <<asleep, powertrain, obstructed>>
    /\ UNCHANGED <<sleepOnExit, sensing, turned, scanVars, servoVars, timer32_1>>

FSM_sensing ==
    /\ \/ pc = "main" /\ FSM_currentState = "STATE_SENSING"
       \/ pc \in {"sensing_flag", "sensing_loop", "sensing_exit"}
    /\ ~asleep
    /\ MainQuiet
    /\ motion' = <<>>
    /\ CASE pc = "main" ->
              /\ Sensing_Module_checkLateralClearance
              /\ pc' = "sensing_flag"
              /\ UNCHANGED <<FSM_currentState, asleep, sensing>>
         [] pc = "sensing_flag" ->
              /\ sensing' = TRUE
              /\ pc' = "sensing_loop"
              /\ UNCHANGED <<FSM_currentState, asleep, scanVars, servoVars>>
         [] pc = "sensing_loop" ->
              /\ IF sensing /\ ~controlled
                 THEN asleep' = TRUE /\ pc' = pc
                 ELSE asleep' = FALSE /\ pc' = "sensing_exit"
              /\ UNCHANGED <<FSM_currentState, sensing, scanVars, servoVars>>
         [] pc = "sensing_exit" ->
              /\ FSM_currentState' = SensingNext(controlled)
              /\ pc' = "main"
              /\ UNCHANGED <<asleep, sensing, scanVars, servoVars>>
    /\ UNCHANGED <<sleepOnExit, obstructed, turned, powertrain, timer32_1>>

FSM_turning ==
    /\ \/ pc = "main" /\ FSM_currentState = "STATE_TURNING"
       \/ pc \in {"turning_loop", "turning_exit"}
    /\ ~asleep
    /\ MainQuiet
    /\ motion' = <<>>
    /\ CASE pc = "main" ->
              /\ turned' = FALSE
              /\ pc' = "turning_loop"
              /\ UNCHANGED <<FSM_currentState, asleep>>
         [] pc = "turning_loop" ->
              /\ IF ~turned /\ ~controlled
                 THEN asleep' = TRUE /\ pc' = pc
                 ELSE asleep' = FALSE /\ pc' = "turning_exit"
              /\ UNCHANGED <<FSM_currentState, turned>>
         [] pc = "turning_exit" ->
              /\ FSM_currentState' = TurningNext(controlled)
              /\ pc' = "main"
              /\ UNCHANGED <<asleep, turned>>
    /\ UNCHANGED <<sleepOnExit, obstructed, sensing, powertrain, scanVars,
                   servoVars, timer32_1>>

FSM_remote ==
    /\ \/ pc = "main" /\ FSM_currentState = "STATE_REMOTE"
       \/ pc \in {"remote_sleep", "remote_exit"}
    /\ ~asleep
    /\ MainQuiet
    /\ motion' = <<>>
    /\ CASE pc = "main" ->
              /\ sleepOnExit' = TRUE
              /\ pc' = "remote_sleep"
              /\ UNCHANGED <<FSM_currentState, asleep>>
         [] pc = "remote_sleep" ->
              /\ asleep' = TRUE
              /\ pc' = "remote_exit"
              /\ UNCHANGED <<FSM_currentState, sleepOnExit>>
         [] pc = "remote_exit" ->
              /\ FSM_currentState' = RemoteNext(controlled)
              /\ pc' = "main"
              /\ UNCHANGED <<asleep, sleepOnExit>>
    /\ UNCHANGED <<obstructed, sensing, turned, powertrain, scanVars,
                   servoVars, timer32_1>>

----------------------------------------------------------------------------
(* queue.h / queue.c: a ring buffer of QUEUE_SIZE strings. A C string is   *)
(* the sequence of its characters before the terminator.                   *)

QUEUE_SIZE == 10
QUEUE_ELEMENT_SIZE == 100

strlen(string) == Len(string)

\* a pointer to a string as a caller sees it: NULL, or the characters it
\* points at when the call returns
NULL == [null |-> TRUE, string |-> <<>>]
Pointer(string) == [null |-> FALSE, string |-> string]

\* a StringQueue in static storage before queue_init
ZeroedQueue ==
    [data |-> [i \in 0..(QUEUE_SIZE - 1) |-> <<>>],
     front |-> 0, rear |-> 0, itemCount |-> 0]

queue_init(q) == [q EXCEPT !.front = 0, !.rear = -1, !.itemCount = 0]

queue_isEmpty(q) == q.itemCount = 0

\* a fullness test that lets one more item in (what C39 rules out)
queue_isFull_oneMore(q) == q.itemCount = QUEUE_SIZE + 1
queue_isFull(q) == q.itemCount = QUEUE_SIZE

queue_enqueue(q, string) ==
    IF ~queue_isFull(q) /\ strlen(string) < QUEUE_ELEMENT_SIZE
    THEN LET rear == (q.rear + 1) % QUEUE_SIZE
         IN  [q EXCEPT !.rear = rear,
                       !.data[rear] = string,
                       !.itemCount = @ + 1]
    ELSE q

\* a dequeue that hands out the newest string (what C40 rules out)
queue_dequeue_newest(q) ==
    IF queue_isEmpty(q) THEN [queue |-> q, string |-> NULL]
    ELSE LET count == q.itemCount - 1
         IN  [queue  |-> IF count = 0 THEN queue_init(q)
                         ELSE [q EXCEPT !.rear = (q.rear + QUEUE_SIZE - 1) % QUEUE_SIZE,
                                        !.itemCount = count],
              string |-> Pointer(q.data[q.rear])]
\* queue_dequeue: the queue after the call and the pointer returned
queue_dequeue(q) ==
    IF queue_isEmpty(q) THEN [queue |-> q, string |-> NULL]
    ELSE LET front == (q.front + 1) % QUEUE_SIZE
             count == q.itemCount - 1
         IN  [queue  |-> IF count = 0
                         THEN [q EXCEPT !.front = 0, !.rear = -1,
                                        !.itemCount = 0]
                         ELSE [q EXCEPT !.front = front, !.itemCount = count],
              string |-> Pointer(q.data[q.front])]

queue_front(q) ==
    IF queue_isEmpty(q) THEN NULL ELSE Pointer(q.data[q.front])

----------------------------------------------------------------------------
(* Initial states *)

\* System_init() has run: every module is initialised, FSM_init has not
InitBoot ==
    /\ entry = "boot"
    /\ FSM_currentState = "STATE_INIT"
    /\ controlled = TRUE
    /\ remoteCallback = "NULL"
    /\ singleCallback = "NULL"
    /\ doubleCallback = "NULL"
    /\ powertrainCallback = "NULL"
    /\ timer32_1 = TimerOff

\* The controller as FSM_remote hands it to FSM_running when the drive mode
\* is autonomous (controlled = false): the entry to the autonomous states.
InitAutonomous ==
    /\ entry = "autonomous"
    /\ FSM_currentState = "STATE_RUNNING"
    /\ controlled = FALSE
    /\ remoteCallback = "switchModeCallback"
    /\ singleCallback = "obstacleCallback"
    /\ doubleCallback = "sensingCallback"
    /\ powertrainCallback = "turnedCallback"
    /\ timer32_1 = [running |-> TRUE, by |-> "FSM_init"]

Init ==
    /\ InitBoot \/ InitAutonomous
    /\ pc = "main"
    /\ asleep = FALSE
    /\ sleepOnExit = FALSE
    /\ obstructed = FALSE
    /\ sensing = FALSE
    /\ turned = FALSE
    /\ powertrain = Powertrain_Module_init
    /\ motorCallbacks = [side \in {"left_motor", "right_motor"} |-> NoMotorCallbacks]
    /\ queue = queue_init(ZeroedQueue)
    /\ pending = <<>>
    /\ returned = NULL
    /\ servo = [position |-> 0]
    /\ currentSensingMode = "SENSING_SINGLE_SAMPLE_MODE"
    /\ previousSample = 0
    /\ nextDirection = 0
    /\ sampleCount = 0
    /\ timer32_0 = FALSE
    /\ usTriggered = FALSE
    /\ T32_INT2_linked \in {"state_machine", "powertrain_module"}
    /\ toggled = FALSE
    /\ frontResult = "none"
    /\ event = NoEvent
    /\ motion = <<>>
    /\ calls = <<>>

IRMessage == \E command \in IRCommand, isValid \in BOOLEAN :
                 Remote_Module_onIRMessageReceived(command, isValid)

BTMessage == \E token \in BTTokens : Remote_Module_onBTMessageReceived(token)

Measurement == \E distance \in Distances : US_MeasurementReady(distance)

Next ==
    \/ FSM_init
    \/ FSM_running
    \/ FSM_sensing
    \/ FSM_turning
    \/ FSM_remote
    \/ IRMessage
    \/ BTMessage
    \/ T32_INT1_IRQHandler
    \/ Measurement
    \/ T32_INT2_IRQHandler

Spec == Init /\ [][Next]_vars

\* the main loop keeps executing whenever the processor is not asleep
MainThread == FSM_init \/ FSM_running \/ FSM_sensing \/ FSM_turning \/ FSM_remote

LiveSpec == Init /\ [][Next]_vars /\ WF_vars(MainThread)

----------------------------------------------------------------------------
(* Delivery of the controller's registered callbacks by their sources.     *)
(* FSM_init registers turnedCallback through                               *)
(* Povertrain_Module_registerTurnCompletedCallback, which no source file   *)
(* defines; its contract is the one of the powertrain's timed turn: on     *)
(* expiry of the turn timer both motors are set to STOP and the registered *)
(* callback is invoked.  ScanCompleteDelivered is the invocation of the    *)
(* registered double callback taken on its own, at any point of the        *)
(* controller's life (a completion that was already in flight).            *)

TurnCompletedDelivered ==
    /\ timer32_1.running /\ timer32_1.by = "wait_milliseconds"
    /\ powertrainCallback # "NULL"
    /\ timer32_1' = TimerOff
    /\ powertrain' = StopOnExpiry(powertrain)
    /\ turned' = turnedCallback(FSM_currentState, turned)
    /\ calls' = <<Call("turnedCallback", FALSE, FALSE)>>
    /\ motion' = <<>>
    /\ event' = Ev("turn_completed", "", 0)
    /\ UNCHANGED <<FSM_currentState, pc, sleepOnExit, controlled, obstructed,
                   sensing, cbVars, scanVars, servoVars, T32_INT2_linked,
                   entry, toggled, frontResult>>
    /\ IsrExit

ScanCompleteDelivered ==
    /\ doubleCallback # "NULL"
    /\ \E free_left \in BOOLEAN, free_right \in BOOLEAN :
          /\ sensingCallback(free_left, free_right)
          /\ calls' = <<Call("sensingCallback", free_left, free_right)>>
    /\ event' = Ev("scan_complete", "", 0)
    /\ UNCHANGED <<FSM_currentState, pc, sleepOnExit, controlled, obstructed,
                   turned, cbVars, scanVars, servoVars, T32_INT2_linked,
                   entry, toggled, frontResult>>
    /\ IsrExit

NextDelivery == Next \/ TurnCompletedDelivered \/ ScanCompleteDelivered

SpecDelivery == Init /\ [][NextDelivery]_vars

LiveSpecDelivery == Init /\ [][NextDelivery]_vars /\ WF_vars(MainThread)

----------------------------------------------------------------------------
(* The sensing module on its own: its clients request single and double    *)
(* scans at any time, interleaved with the servo and measurement events.   *)

ServoBearings == {SERVO_POS_LEFT, SERVO_POS_FRONT, SERVO_POS_RIGHT}

ScanRequestQuiet ==
    /\ motion' = <<>>
    /\ calls' = <<>>
    /\ UNCHANGED <<FSM_currentState, pc, asleep, sleepOnExit, fsmFlags, cbVars,
                   powertrain, timer32_1, T32_INT2_linked, entry, toggled,
                   frontResult>>

RequestSingle ==
    /\ \E deg \in ServoBearings : Sensing_Module_checkSingleClearance(deg)
    /\ event' = Ev("scan_request", "SENSING_SINGLE_SAMPLE_MODE", 0)
    /\ ScanRequestQuiet

RequestDouble ==
    /\ \E deg1 \in ServoBearings, deg2 \in ServoBearings :
          Sensing_Module_checkDoubleClearance(deg1, deg2)
    /\ event' = Ev("scan_request", "SENSING_DOUBLE_SAMPLE_MODE", 0)
    /\ ScanRequestQuiet

NextSensing ==
    \/ RequestSingle
    \/ RequestDouble
    \/ T32_INT1_IRQHandler
    \/ Measurement

SpecSensing == Init /\ [][NextSensing]_vars

\* the servo delay and a triggered measurement always run to completion
LiveSpecSensing ==
    /\ Init /\ [][NextSensing]_vars
    /\ WF_vars(T32_INT1_IRQHandler)
    /\ WF_vars(Measurement)

\* The servo driver under arbitrary position requests (the argument is an
\* int8_t: the bounds, their neighbours outside the range and the extremes
\* of the type), together with the sensing module that also drives it.
ServoRequests ==
    {-128, SERVO_MIN_POSITION - 1, SERVO_MIN_POSITION, SERVO_POS_FRONT,
     SERVO_MAX_POSITION, SERVO_MAX_POSITION + 1, 127}

RequestPosition ==
    /\ \E position \in ServoRequests :
          /\ SERVO_HAL_setPosition(position, usTriggered)
          /\ event' = Ev("set_position", "", position)
    /\ ScanRequestQuiet
    /\ UNCHANGED scanVars

NextServo ==
    \/ RequestPosition
    \/ RequestSingle
    \/ RequestDouble
    \/ T32_INT1_IRQHandler
    \/ Measurement

SpecServo == Init /\ [][NextServo]_vars

\* The host build of the motor driver (tests/motor_hal.c), which is the one
\* that notifies the change callbacks of a Motor, under arbitrary calls of its
\* interface. A result is the motor state and the callbacks invoked.
MotorSpeeds == {0, POWERTRAIN_REV_SPEED, POWERTRAIN_FWD_SPEED}

Notified(callback) == IF callback # "NULL" THEN <<callback>> ELSE <<>>

\* a speed setter that notifies on every call (what C27 rules out)
MOTOR_HAL_setSpeed_always(motor, callbacks, speed) ==
    [motor |-> [motor EXCEPT !.speed = speed],
     notified |-> Notified(callbacks.speedCallback)]

MOTOR_HAL_setSpeed_notifying(motor, callbacks, speed) ==
    IF motor.speed = speed THEN [motor |-> motor, notified |-> <<>>]
    ELSE [motor |-> [motor EXCEPT !.speed = speed],
          notified |-> Notified(callbacks.speedCallback)]

MOTOR_HAL_setDirection_notifying(motor, callbacks, direction) ==
    IF motor.direction = direction THEN [motor |-> motor, notified |-> <<>>]
    ELSE [motor |-> [direction |-> direction,
                     speed |-> IF direction = "MOTOR_DIR_STOP"
                                  THEN 0 ELSE motor.speed],
          notified |-> Notified(callbacks.dirCallback)]

MotorQuiet ==
    /\ motion' = <<>>
    /\ UNCHANGED <<FSM_currentState, pc, asleep, sleepOnExit, fsmFlags,
                   remoteCallback, singleCallback, doubleCallback,
                   powertrainCallback, scanVars, servoVars, timer32_1,
                   T32_INT2_linked, entry, toggled, frontResult,
                   queueVars>>

MotorInit ==
    /\ \E side \in {"left_motor", "right_motor"} :
          /\ powertrain' = [powertrain EXCEPT
                               ![side] = [speed |-> 0,
                                          direction |-> "MOTOR_DIR_STOP"]]
          /\ motorCallbacks' = [motorCallbacks EXCEPT ![side] = NoMotorCallbacks]
          /\ event' = Ev("motor_init", side, 0)
    /\ calls' = <<>>
    /\ MotorQuiet

MotorRegister ==
    /\ \E side \in {"left_motor", "right_motor"} :
          /\ \/ motorCallbacks' = [motorCallbacks EXCEPT
                                      ![side].speedCallback = "speedCallback"]
             \/ motorCallbacks' = [motorCallbacks EXCEPT
                                      ![side].dirCallback = "dirCallback"]
          /\ event' = Ev("motor_register", side, 0)
    /\ calls' = <<>>
    /\ UNCHANGED powertrain
    /\ MotorQuiet

MotorSetSpeed ==
    /\ \E side \in {"left_motor", "right_motor"}, speed \in MotorSpeeds :
          LET r == MOTOR_HAL_setSpeed_notifying(powertrain[side],
                                                motorCallbacks[side], speed)
          IN  /\ powertrain' = [powertrain EXCEPT ![side] = r.motor]
              /\ calls' = [i \in 1..Len(r.notified) |->
                              Call(r.notified[i], side, FALSE)]
              /\ event' = Ev("motor_setSpeed", side, speed)
    /\ UNCHANGED motorCallbacks
    /\ MotorQuiet

MotorSetDirection ==
    /\ \E side \in {"left_motor", "right_motor"}, direction \in MotorDirection :
          LET r == MOTOR_HAL_setDirection_notifying(powertrain[side],
                                                    motorCallbacks[side],
                                                    direction)
          IN  /\ powertrain' = [powertrain EXCEPT ![side] = r.motor]
              /\ calls' = [i \in 1..Len(r.notified) |->
                              Call(r.notified[i], side, FALSE)]
              /\ event' = Ev("motor_setDirection", side, 0)
    /\ UNCHANGED motorCallbacks
    /\ MotorQuiet

NextMotor ==
    \/ MotorInit
    \/ MotorRegister
    \/ MotorSetSpeed
    \/ MotorSetDirection

SpecMotor == Init /\ [][NextMotor]_vars

\* calculate_time_from_angle under arguments drawn from its uint8_t
\* parameters; the step records the arguments and the result
SpeedPercentages == {0, POWERTRAIN_REV_SPEED, POWERTRAIN_FWD_SPEED,
                     POWERTRAIN_TURN_SPEED, 99, 100, 199, 200, 255}

Angles == {0, 1, 45, 90, 180, 255}

ComputeTurnTime ==
    /\ \E speedPercentage \in SpeedPercentages, angle \in Angles :
          \E result \in calculate_time_from_angle(speedPercentage, angle) :
             /\ event' = Ev("turn_time", speedPercentage, angle)
             /\ motion' = <<[op |-> "calculate_time_from_angle",
                             angle |-> angle,
                             speed |-> result.speed,
                             time |-> result.time]>>
    /\ calls' = <<>>
    /\ UNCHANGED <<FSM_currentState, pc, asleep, sleepOnExit, fsmFlags, cbVars,
                   powertrain, scanVars, servoVars, timer32_1, T32_INT2_linked,
                   entry, toggled, frontResult>>

NextTurnTime == ComputeTurnTime

SpecTurnTime == Init /\ [][NextTurnTime]_vars

(* The string queue on its own: its client enqueues, dequeues and peeks in *)
(* any order.                                                              *)

Fill(n) == [i \in 1..n |-> "x"]

\* messages offered to the queue: a short one, the longest one that fits a
\* slot with its terminator, and the shortest one that does not
Messages == {<<"a">>, Fill(QUEUE_ELEMENT_SIZE - 1), Fill(QUEUE_ELEMENT_SIZE)}

QueueQuiet ==
    /\ motion' = <<>>
    /\ calls' = <<>>
    /\ UNCHANGED <<FSM_currentState, pc, asleep, sleepOnExit, fsmFlags,
                   remoteCallback, singleCallback, doubleCallback,
                   powertrainCallback, motorCallbacks, powertrain, scanVars,
                   servoVars, timer32_1, T32_INT2_linked, entry, toggled,
                   frontResult>>

Enqueue ==
    /\ \E string \in Messages :
          /\ queue' = queue_enqueue(queue, string)
          /\ pending' = IF queue' # queue THEN Append(pending, string)
                        ELSE pending
          /\ event' = Ev("queue_enqueue", "", strlen(string))
    /\ returned' = NULL
    /\ QueueQuiet

Dequeue ==
    /\ LET r == queue_dequeue(queue)
       IN  /\ queue' = r.queue
           /\ returned' = r.string
           /\ pending' = IF r.string.null \/ pending = <<>> THEN pending
                         ELSE Tail(pending)
    /\ event' = Ev("queue_dequeue", "", 0)
    /\ QueueQuiet

Front ==
    /\ returned' = queue_front(queue)
    /\ event' = Ev("queue_front", "", 0)
    /\ UNCHANGED <<queue, pending>>
    /\ QueueQuiet

NextQueue == Enqueue \/ Dequeue \/ Front

SpecQueue == Init /\ [][NextQueue]_vars

TypeOK ==
    /\ FSM_currentState \in FSM_State
    /\ powertrain.left_motor.direction \in MotorDirection
    /\ powertrain.right_motor.direction \in MotorDirection
    /\ sampleCount \in 0..1
    /\ frontResult \in {"none", "free", "blocked"}

----------------------------------------------------------------------------
(* Properties of the state machine (spec sections 4.1 and 4.2)             *)

AutonomousStates == {"STATE_RUNNING", "STATE_SENSING", "STATE_TURNING"}

Stopped(p) ==
    /\ p.left_motor.direction = "MOTOR_DIR_STOP"
    /\ p.right_motor.direction = "MOTOR_DIR_STOP"

\* the last step invoked exactly the callback cb
Delivered(cb) == Len(calls) = 1 /\ calls[1].cb = cb

\* C1: when the controller is in REMOTE and a mode toggle is received, the
\* handler's return moves the controller to RUNNING (whose entry starts the
\* forward motion).
C1_ToggleInRemoteStartsRunning ==
    [][(FSM_currentState = "STATE_REMOTE" /\ toggled /\ pc = "remote_exit"
        /\ pc' = "main")
       => FSM_currentState' = "STATE_RUNNING"]_vars

TransitionTable ==
    {<<"STATE_INIT", "STATE_REMOTE">>,
     <<"STATE_REMOTE", "STATE_RUNNING">>,
     <<"STATE_RUNNING", "STATE_SENSING">>,
     <<"STATE_RUNNING", "STATE_REMOTE">>,
     <<"STATE_SENSING", "STATE_TURNING">>,
     <<"STATE_SENSING", "STATE_REMOTE">>,
     <<"STATE_TURNING", "STATE_RUNNING">>,
     <<"STATE_TURNING", "STATE_REMOTE">>}

TurnOps == {"turnLeft", "turnRight"}

C9_TurnChoice ==
    Delivered("sensingCallback") =>
        /\ Len(motion) = 1
        /\ IF calls[1].a THEN motion[1] = Cmd("turnLeft", 90)
           ELSE IF calls[1].b THEN motion[1] = Cmd("turnRight", 90)
           ELSE motion[1].op \in TurnOps /\ motion[1].angle = 180

\* C9 happens: a scan reported both sides blocked and the turn-around was
\* issued
C9_Witness ==
    /\ Delivered("sensingCallback")
    /\ event.type = "measurement"
    /\ ~calls[1].a /\ ~calls[1].b
    /\ Len(motion) = 1
    /\ motion[1].angle = 180

\* C10: when the timer of a timed turn has expired, both motors are at STOP
\* and the registered turn-completed callback has been invoked exactly once.
C10_TurnExpiryStopsThenCallsBack ==
    (/\ event.type = "t32_int2"
     /\ event.arg = "wait_milliseconds"
     /\ powertrainCallback # "NULL")
        => (Stopped(powertrain) /\ Delivered(powertrainCallback))

MeasurementIn(mode) == event.type = "measurement" /\ event.arg = mode

\* C12: in a double scan the first measurement D1 is what previousSample
\* holds until the second measurement D2, and the double callback is invoked
\* with exactly (D1 > threshold, D2 > threshold).
C12_DoubleScanClassification ==
    /\ [][(MeasurementIn("SENSING_DOUBLE_SAMPLE_MODE")' /\ sampleCount = 0)
           => previousSample' = event'.dist]_vars
    /\ [][previousSample' # previousSample
           => (MeasurementIn("SENSING_DOUBLE_SAMPLE_MODE")' /\ sampleCount = 0)]_vars
    /\ [][(/\ MeasurementIn("SENSING_DOUBLE_SAMPLE_MODE")'
            /\ sampleCount = 1
            /\ doubleCallback # "NULL")
           => calls' = <<Call("sensingCallback",
                              previousSample > SENSING_FREE_THRESHOLD,
                              event'.dist > SENSING_FREE_THRESHOLD)>>]_vars

\* C12 happens: a double scan measured a clear first bearing and a second
\* bearing exactly at the threshold, and reported (TRUE, FALSE)
C12_Witness ==
    /\ MeasurementIn("SENSING_DOUBLE_SAMPLE_MODE")
    /\ Delivered("sensingCallback")
    /\ previousSample = SENSING_FREE_THRESHOLD + 1
    /\ event.dist = SENSING_FREE_THRESHOLD
    /\ calls[1].a /\ ~calls[1].b

\* C13: in double mode a measurement taken with the sample counter at 0
\* stores the sample, re-points the servo at the second bearing and invokes
\* no callback; a measurement taken with the counter at 1 invokes the double
\* callback exactly once and leaves the counter at 0.
C13_DoubleScanProtocol ==
    [][MeasurementIn("SENSING_DOUBLE_SAMPLE_MODE")'
       => IF sampleCount = 0
          THEN /\ sampleCount' = 1
               /\ previousSample' = event'.dist
               /\ servo'.position = nextDirection
               /\ timer32_0' \/ usTriggered'
               /\ calls' = <<>>
               /\ motion' = <<>>
          ELSE /\ sampleCount' = 0
               /\ doubleCallback # "NULL" => Delivered("sensingCallback")'
               /\ previousSample' = previousSample]_vars

\* C13 happens: the first sample of a lateral scan has been stored and the
\* servo sent to the right-hand bearing, with no callback invoked
C13_Witness ==
    /\ MeasurementIn("SENSING_DOUBLE_SAMPLE_MODE")
    /\ sampleCount = 1
    /\ previousSample = event.dist
    /\ servo.position = SERVO_POS_RIGHT
    /\ timer32_0
    /\ calls = <<>>

\* C14: in single mode a measurement-ready event invokes the single callback
\* exactly once, with isFree = (distance > threshold), and nothing else.
C14_SingleScanClassification ==
    [][(MeasurementIn("SENSING_SINGLE_SAMPLE_MODE")' /\ singleCallback # "NULL")
       => /\ calls' = <<Call("obstacleCallback",
                             event'.dist > SENSING_FREE_THRESHOLD, FALSE)>>
          /\ UNCHANGED <<sensing, sampleCount, previousSample>>]_vars

\* C14 happens: a front check measured a distance above the threshold and the
\* single callback was invoked with isFree = TRUE
C14_Witness ==
    /\ MeasurementIn("SENSING_SINGLE_SAMPLE_MODE")
    /\ Delivered("obstacleCallback")
    /\ event.dist = SENSING_FREE_THRESHOLD + 1
    /\ calls[1].a

\* C15: whenever a single or double scan is requested, the scan session
\* starts with the sample counter at 0.
C15_ScanStartsFresh ==
    [][event'.type = "scan_request" => sampleCount' = 0]_vars

\* C16: a periodic tick delivered while the controller is not in RUNNING
\* starts no servo movement and no measurement.
C16_TickChecksOnlyInRunning ==
    [][(/\ event'.type = "t32_int2"
        /\ event'.arg = "FSM_init"
        /\ T32_INT2_linked = "state_machine"
        /\ FSM_currentState # "STATE_RUNNING")
       => UNCHANGED <<servo, timer32_0, usTriggered, currentSensingMode>>]_vars

\* remote commands other than the mode toggle
IRMotionCommands == {"IR_COMMAND_UP", "IR_COMMAND_DOWN", "IR_COMMAND_LEFT",
                     "IR_COMMAND_RIGHT", "IR_COMMAND_OK", "IR_COMMAND_2",
                     "IR_COMMAND_8"}
BTMotionTokens == {"FWD", "REV", "LFT", "RGT", "STP"}

\* C17: while the controller is not in REMOTE, a remote command other than
\* the mode toggle changes no motor state and starts no timed action.
C17_MotionCommandsOnlyInRemote ==
    [][(/\ FSM_currentState # "STATE_REMOTE"
        /\ \/ event'.type \in {"ir", "ir_invalid"} /\ event'.arg \in IRMotionCommands
           \/ event'.type = "bt" /\ event'.arg \in BTMotionTokens)
       => (/\ UNCHANGED <<powertrain, timer32_1>>
           /\ motion' = <<>>
           /\ calls' = <<>>)]_vars

\* C17 happens: "STP" arrived while the controller was driving forward in
\* RUNNING, and the motors still run forward
C17_Witness ==
    /\ event.type = "bt"
    /\ event.arg = "STP"
    /\ event.state = "STATE_RUNNING"
    /\ powertrain.left_motor = [speed |-> POWERTRAIN_FWD_SPEED,
                                direction |-> "MOTOR_DIR_FORWARD"]
    /\ powertrain.right_motor = powertrain.left_motor
    /\ motion = <<>>

\* a mode-toggle message: a valid IR asterisk, text "AUT" or text "MAN"
ToggleMessage ==
    \/ event.type = "ir" /\ event.arg = "IR_COMMAND_ASTERISK"
    \/ event.type = "bt" /\ event.arg \in {"AUT", "MAN"}

C19_UnrecognisedDropped ==
    [][(\/ event'.type = "ir_invalid"
        \/ /\ event'.type = "ir"
           /\ event'.arg \notin IRMotionCommands \cup {"IR_COMMAND_ASTERISK"}
        \/ /\ event'.type = "bt"
           /\ event'.arg \notin BTMotionTokens \cup {"AUT", "MAN"})
       => (/\ UNCHANGED <<FSM_currentState, controlled, powertrain, timer32_1>>
           /\ motion' = <<>>
           /\ calls' = <<>>)]_vars

\* C19 happens: an unmapped IR key arrived in REMOTE and nothing was called
C19_Witness ==
    /\ event.type = "ir"
    /\ event.arg = "IR_COMMAND_HASHTAG"
    /\ event.state = "STATE_REMOTE"
    /\ FSM_currentState = "STATE_REMOTE"
    /\ calls = <<>>
    /\ motion = <<>>

\* C20: after initialisation every change of controller state into REMOTE or
\* out of REMOTE follows a mode toggle accepted since the state was entered.
C20_RemoteOnlyByToggle ==
    [][(/\ FSM_currentState' # FSM_currentState
        /\ FSM_currentState # "STATE_INIT"
        /\ "STATE_REMOTE" \in {FSM_currentState, FSM_currentState'})
       => toggled]_vars

\* C20 happens: an obstacle event ended RUNNING with no toggle accepted, and
\* the controller went to SENSING, not to REMOTE
C20_Witness ==
    /\ event.type = "main"
    /\ event.arg = "running_exit"
    /\ event.state = "STATE_RUNNING"
    /\ frontResult # "none"
    /\ obstructed
    /\ FSM_currentState = "STATE_SENSING"

----------------------------------------------------------------------------
(* Properties of the powertrain, servo and motor modules *)

TimedActionInFlight ==
    timer32_1.running /\ timer32_1.by = "wait_milliseconds"

\* C21: at most one timed motion action is in flight: no timed turn is
\* started while the timer of an earlier timed action is still counting.
C21_OneTimedActionInFlight ==
    [][(Len(motion') = 1 /\ motion'[1].op \in TurnOps)
       => ~TimedActionInFlight]_vars

\* the main thread sleeps inside a state handler, in the loop that re-tests a
\* flag set only by a callback (obstructed, sensing, turned)
WaitingOnFlag ==
    asleep /\ pc \in {"running_loop", "sensing_loop", "turning_loop"}

HandlerOf(p) ==
    CASE p \in RunningPcs -> "STATE_RUNNING"
      [] p \in {"sensing_flag", "sensing_loop", "sensing_exit"} -> "STATE_SENSING"
      [] p \in {"turning_loop", "turning_exit"} -> "STATE_TURNING"
      [] p \in {"remote_sleep", "remote_exit"} -> "STATE_REMOTE"
      [] OTHER -> "none"

\* C23: FSM_currentState is always one of INIT, RUNNING, SENSING, TURNING,
\* REMOTE (the halt branch of the main loop is never taken), and the handler
\* the main loop is running is the one of the current state.
C23_StateAlwaysKnown ==
    /\ FSM_currentState \in FSM_State
    /\ pc # "main" => HandlerOf(pc) = FSM_currentState

\* C23 happens: the main loop dispatched the handler of a state that was
\* assigned by the handler before it (SENSING, assigned by FSM_running)
C23_Witness ==
    /\ event.type = "main"
    /\ event.arg = "main"
    /\ event.state = "STATE_SENSING"
    /\ pc = "sensing_flag"
    /\ entry = "autonomous"

Sides == {"left_motor", "right_motor"}

Moving(motor) == motor.direction # "MOTOR_DIR_STOP" /\ motor.speed > 0

\* C24: increaseSpeed never leaves a motor above 100; decreaseSpeed never
\* leaves a moving motor below 20; on a stopped motor both change nothing.
C24_SpeedStepsClamped ==
    [][\A op \in {"increaseSpeed", "decreaseSpeed"} :
         motion' = <<Cmd(op, 0)>> =>
           \A side \in Sides :
             /\ op = "increaseSpeed" => powertrain'[side].speed <= 100
             /\ (op = "decreaseSpeed" /\ Moving(powertrain[side]))
                   => powertrain'[side].speed >= 20
             /\ ~Moving(powertrain[side])
                   => powertrain'[side] = powertrain[side]]_vars

\* C24 happens: increaseSpeed was applied to motors moving at the upper bound
C24_Witness ==
    /\ motion = <<Cmd("increaseSpeed", 0)>>
    /\ event.state = "STATE_REMOTE"
    /\ \A side \in Sides : /\ powertrain[side].speed = 100
                           /\ powertrain[side].direction = "MOTOR_DIR_FORWARD"

\* a motor after increaseSpeed immediately followed by decreaseSpeed
RoundTrip(motor) == StepSpeed(StepSpeed(motor, 10), -10)

C26_ServoPositionClamped ==
    /\ servo.position \in SERVO_MIN_POSITION..SERVO_MAX_POSITION
    /\ event.type = "set_position" =>
          servo.position = IF event.dist < SERVO_MIN_POSITION
                              THEN SERVO_MIN_POSITION
                           ELSE IF event.dist > SERVO_MAX_POSITION
                              THEN SERVO_MAX_POSITION
                           ELSE event.dist

\* C26 happens: a position just above the range was requested while the
\* servo was elsewhere, and the servo is recorded at the upper bound
C26_Witness ==
    /\ event.type = "set_position"
    /\ event.dist = SERVO_MAX_POSITION + 1
    /\ timer32_0
    /\ servo.position = SERVO_MAX_POSITION

\* C27: a motor's speed-change (direction-change) callback is invoked only by
\* a set operation that changes the stored speed (direction) of that motor.
C27_NotifiedOnlyOnChange ==
    [][\A i \in 1..Len(calls') :
         LET side == calls'[i].a IN
         /\ calls'[i].cb = "speedCallback"
               => powertrain'[side].speed # powertrain[side].speed
         /\ calls'[i].cb = "dirCallback"
               => powertrain'[side].direction # powertrain[side].direction]_vars

\* C27 happens: a speed was set on the left motor, whose speed callback is
\* registered, and the callback was invoked
C27_Witness ==
    /\ event.type = "motor_setSpeed"
    /\ event.arg = "left_motor"
    /\ motorCallbacks.left_motor.speedCallback # "NULL"
    /\ powertrain.left_motor.speed = POWERTRAIN_FWD_SPEED
    /\ calls = <<Call("speedCallback", "left_motor", FALSE)>>

\* the last step accepted a mode toggle (it ran the mode-change callback)
ToggleAccepted ==
    \E i \in 1..Len(calls) : calls[i].cb = "switchModeCallback"

\* the mode-switched telemetry notifications raised by the last step
ModeSwitchNotifications ==
    {i \in 1..Len(calls) : calls[i].cb = "Telemetry_Module_notifyModeSwitch"}

\* C28: each accepted mode toggle raises exactly one mode-switched telemetry
\* notification.
C28_ToggleNotifiesTelemetry ==
    ToggleAccepted => Cardinality(ModeSwitchNotifications) = 1

BothDirection(p, direction) ==
    \A side \in Sides : p[side].direction = direction

\* the last step was a remote command that ran the Powertrain operation op
RemoteOp(op) == event.type \in {"ir", "bt"} /\ motion = <<Cmd(op, 0)>>

\* C29: after stop() both motors are in direction STOP, after moveForward()
\* both are FORWARD and after moveBackward() both are REVERSE, whatever the
\* motors were doing before, right after initialization included.
C29_DirectionAfterMotionCommand ==
    /\ RemoteOp("stop") => BothDirection(powertrain, "MOTOR_DIR_STOP")
    /\ RemoteOp("moveForward") => BothDirection(powertrain, "MOTOR_DIR_FORWARD")
    /\ RemoteOp("moveBackward") => BothDirection(powertrain, "MOTOR_DIR_REVERSE")

SameSpeed(p) == p.left_motor.speed = p.right_motor.speed

\* the last step completed a Powertrain operation: a remote command or a
\* scan completion ran one, the handler of powertrain_module.c served the
\* timer expiry, or Powertrain_Module_moveForward returned in FSM_running
OperationCompleted ==
    \/ event.type \in {"ir", "bt", "measurement"} /\ Len(motion) = 1
    \/ event.type = "t32_int2" /\ T32_INT2_linked = "powertrain_module"
    \/ event.type = "main" /\ event.arg = "running_spdR"

----------------------------------------------------------------------------
(* Properties of timed turns, the shared timer and the command channels *)

\* both motors at the turn speed, in the given directions
TurnShape(p, dirL, dirR) ==
    /\ p.left_motor  = [speed |-> POWERTRAIN_TURN_SPEED, direction |-> dirL]
    /\ p.right_motor = [speed |-> POWERTRAIN_TURN_SPEED, direction |-> dirR]

TurningLeft(p)  == TurnShape(p, "MOTOR_DIR_REVERSE", "MOTOR_DIR_FORWARD")
TurningRight(p) == TurnShape(p, "MOTOR_DIR_FORWARD", "MOTOR_DIR_REVERSE")

\* the step is (part of) a Powertrain command: one issued by an interrupt
\* handler, or a statement of the moveForward that FSM_running runs
CommandStep ==
    \/ Len(motion') > 0
    \/ pc \in {"running_dirL", "running_dirR", "running_spdL", "running_spdR"}

\* C31: a timed turn leaves the left motor REVERSE and the right motor
\* FORWARD (turnLeft), or the left FORWARD and the right REVERSE (turnRight),
\* both at the turn speed, with its timer counting; and until that timer
\* expires every step that is no other command keeps the motors so.
C31_TurnDrivesMotorsOpposite ==
    [][/\ (Len(motion') = 1 /\ motion'[1].op = "turnLeft")
             => TurningLeft(powertrain') /\ TimedActionInFlight'
       /\ (Len(motion') = 1 /\ motion'[1].op = "turnRight")
             => TurningRight(powertrain') /\ TimedActionInFlight'
       /\ (TimedActionInFlight /\ TimedActionInFlight' /\ ~CommandStep)
             => /\ TurningLeft(powertrain) => TurningLeft(powertrain')
                /\ TurningRight(powertrain) => TurningRight(powertrain')]_vars

\* C31 happens: the scan-complete callback issued a left turn, the controller
\* went on to TURNING and waits there, and the motors still turn left
C31_Witness ==
    /\ FSM_currentState = "STATE_TURNING"
    /\ pc = "turning_loop"
    /\ asleep
    /\ TimedActionInFlight
    /\ TurningLeft(powertrain)

\* the text token and the IR key that stand for the same motion command
ChannelPairs ==
    {<<"FWD", "IR_COMMAND_UP">>, <<"REV", "IR_COMMAND_DOWN">>,
     <<"LFT", "IR_COMMAND_LEFT">>, <<"RGT", "IR_COMMAND_RIGHT">>,
     <<"STP", "IR_COMMAND_OK">>}

\* C32: from the same state, text FWD/REV/LFT/RGT/STP and valid IR
\* up/down/left/right/ok do the same: every step taken by one of the two
\* handlers is, but for the record of which message arrived, a step of the
\* other handler on the paired message.
C32_ChannelsEquivalent ==
    [][\A pair \in ChannelPairs :
         /\ (event'.type = "bt" /\ event'.arg = pair[1])
               => IRHandled(pair[2], TRUE)
         /\ (event'.type = "ir" /\ event'.arg = pair[2])
               => BTHandled(pair[1])]_vars

\* C32 happens: text "LFT" was received in REMOTE and started a left turn
C32_Witness ==
    /\ event.type = "bt"
    /\ event.arg = "LFT"
    /\ event.state = "STATE_REMOTE"
    /\ motion = <<Cmd("turnLeft", 45)>>
    /\ TurningLeft(powertrain)

\* the wait durations the build can produce for a turn at the turn speed
TurnTimes(angle) ==
    {r.time : r \in calculate_time_from_angle(POWERTRAIN_TURN_SPEED, angle)}

\* C33: the wait computed for a timed turn at the fixed turn speed involves
\* no division by zero, is positive and fits 32 bits, and is proportional to
\* the angle: the wait for 180 degrees is twice that for 90 and four times
\* that for 45.
C33_TurnTimeProportional ==
    (event.type = "turn_time" /\ event.arg = POWERTRAIN_TURN_SPEED
                              /\ event.dist > 0) =>
       /\ motion[1].speed # 0
       /\ motion[1].time # U32(0)
       /\ motion[1].time # U32Max
       /\ \A t45 \in TurnTimes(45), t90 \in TurnTimes(90), t180 \in TurnTimes(180) :
             t90 = U32Double(t45) /\ t180 = U32Double(t90)

\* TIMER32_1 is counting the tick period programmed by FSM_init
TickCounting == timer32_1.running /\ timer32_1.by = "FSM_init"

\* C34: starting a timed turn never re-programs the periodic tick timer, a
\* turn-timer expiry is never handled as a periodic tick, and a tick is
\* never handled as a turn expiry.
C34_TurnLeavesTickTimerAlone ==
    [][/\ (Len(motion') = 1 /\ motion'[1].op \in TurnOps /\ TickCounting)
             => TickCounting'
       /\ (event'.type = "t32_int2" /\ event'.arg = "wait_milliseconds")
             => T32_INT2_linked = "powertrain_module"
       /\ (event'.type = "t32_int2" /\ event'.arg = "FSM_init")
             => T32_INT2_linked = "state_machine"]_vars

----------------------------------------------------------------------------
(* Properties of the handshake between the handlers and their callbacks *)

\* the scan-complete callback has just run in SENSING, after FSM_sensing
\* issued the lateral scan (before or after it set the sensing flag)
ScanCompletedInSensing ==
    /\ Delivered("sensingCallback")
    /\ event.state = "STATE_SENSING"
    /\ pc \in {"sensing_flag", "sensing_loop"}

TurnCompletedEarly ==
    /\ Delivered("turnedCallback")
    /\ controlled = FALSE
    /\ \/ event.state = "STATE_SENSING" /\ pc = "sensing_exit"
       \/ event.state = "STATE_TURNING" /\ pc = "main"

----------------------------------------------------------------------------
(* Properties of scan completion and of the motor state                    *)

\* a client with a registered completion callback has just requested a
\* double scan
DoubleScanRequested ==
    /\ event.type = "scan_request"
    /\ event.arg = "SENSING_DOUBLE_SAMPLE_MODE"
    /\ doubleCallback # "NULL"

\* the last step invoked the double-scan callback
DoubleScanDelivered == calls # <<>> /\ calls[1].cb = "sensingCallback"

\* C37: every requested double scan is eventually followed by the
\* invocation of the double-scan callback, also when a single front check
\* is requested while the double scan is in flight.
C37_DoubleScanCompletes == DoubleScanRequested ~> DoubleScanDelivered

----------------------------------------------------------------------------
(* Properties of the string queue                                          *)

\* the strings held by the queue, oldest first, as front and itemCount
\* delimit them
Contents(q) ==
    [i \in 1..q.itemCount |-> q.data[(q.front + i - 1) % QUEUE_SIZE]]

\* the last step was a call that the queue has to turn down: an enqueue on
\* a full queue or of a string that does not fit a slot, or a dequeue on
\* an empty queue
TurnedDown ==
    \/ /\ event'.type = "queue_enqueue"
       /\ Len(pending) = QUEUE_SIZE \/ event'.dist >= QUEUE_ELEMENT_SIZE
    \/ /\ event'.type = "queue_dequeue"
       /\ pending = <<>>

\* C39: the queue never holds more than QUEUE_SIZE items, itemCount is the
\* number of strings enqueued and not yet dequeued, and an enqueue on a
\* full queue or of a string of QUEUE_ELEMENT_SIZE or more characters and a
\* dequeue on an empty queue leave the queue unchanged, the latter
\* returning NULL.
C39_QueueBoundedAndCounted ==
    /\ [](queue.itemCount <= QUEUE_SIZE /\ queue.itemCount = Len(pending))
    /\ [][TurnedDown =>
            /\ queue' = queue
            /\ event'.type = "queue_dequeue" => returned'.null]_vars

\* a string that does not fit has just been offered to a full queue that
\* has wrapped around
C39_Witness ==
    /\ event.type = "queue_enqueue"
    /\ event.dist = QUEUE_ELEMENT_SIZE
    /\ queue.itemCount = QUEUE_SIZE
    /\ queue.front # 0

\* C40: queue_dequeue and queue_front hand out the oldest string accepted
\* and not yet taken out, so strings leave the queue in the order they
\* were accepted, whatever the sequence of operations.
C40_FirstInFirstOut ==
    /\ [](Contents(queue) = pending)
    /\ [][(event'.type \in {"queue_dequeue", "queue_front"} /\ pending # <<>>)
            => (~returned'.null /\ returned'.string = Head(pending))]_vars

\* a string has just been taken out of a queue whose contents wrap around
\* the end of the buffer, ahead of a different string accepted later
C40_Witness ==
    /\ event.type = "queue_dequeue"
    /\ ~returned.null
    /\ queue.itemCount > 0
    /\ queue.rear < queue.front
    /\ returned.string # Head(pending)

====
